---- MODULE Spec2Model ----
(***************************************************************************)
(* Model of b3j0f.aop: the advice registry stapled on joinpoint functions  *)
(* (advice.py: _add_advices, _remove_advices, get_advices, weave, unweave),*)
(* the interception binder (joinpoint.py: _apply_interception,             *)
(* _unapply_interception, is_intercepted) and the execution chain          *)
(* (advice.py: AdvicesExecutor.execute, Advice.apply).                     *)
(*                                                                         *)
(* A call of a joinpoint is executed in small steps on an explicit call    *)
(* stack: one frame for the generated interception function and one frame  *)
(* per advice invocation.  weave / unweave / enable run when no call is in *)
(* flight (sequential histories).                                          *)
(***************************************************************************)
EXTENDS Integers, Sequences, FiniteSets, TLC

VARIABLES
    fadvices,      \* function -> Option(list): the `_advices` attribute
    fintercepted,  \* function -> BOOLEAN: the `_intercepted` attribute is set
    fjoinpoint,    \* function -> BOOLEAN: the `_joinpoint` attribute is set
    fcode,         \* function -> "original" or the executor its code is bound to
    ex,            \* executor -> fields of the AdvicesExecutor object
    enable,        \* Advice object -> its `_enable` flag
    stack,         \* call stack of the call in flight (top is the last frame)
    result,        \* Option(outcome) handed to the caller of the joinpoint
    log,           \* what the handlers and bodies of the current call recorded
    cur,           \* what the caller observed when it started the call
    wchain,        \* function -> advice lists of the weave calls since binding
    wres,          \* what the last weave / unweave call returned or raised
    timers,        \* the Timer objects made by weave(..., ttl=...), in creation order
    threads,       \* thread -> the call of a joinpoint that thread has in flight
    snap,          \* what the last get_advices call returned, and of which joinpoint
    ops            \* thread -> the weave or unweave call that thread has in flight

vars == <<fadvices, fintercepted, fjoinpoint, fcode, ex, enable, stack, result, log,
          cur, wchain, wres, timers, threads, snap, ops>>

\* what the calls of one caller on one function never touch
apivars == <<wres, timers, threads, snap, ops>>

(***************************************************************************)
(* Bounds                                                                  *)
(***************************************************************************)
MaxAdvices == 2     \* longest advice list a joinpoint may hold
MaxWeave == 2       \* longest advice list given to one weave call
MaxDeviations == 1  \* handler invocations of one call that do not just proceed once
MaxTimers == 2      \* timers made by weave calls with a ttl
MaxThreadCalls == 1 \* calls of a joinpoint one thread makes

(***************************************************************************)
(* Universe                                                                *)
(***************************************************************************)
Funcs == {"f"}                 \* joinpoint functions
ExecIds == {"e1", "e2", "e3", "e4"}  \* AdvicesExecutor objects alive at one time
AdvicePool == {"a1", "a2"}     \* advice objects handed to weave
OtherAdvices == {"a3"}         \* advice objects only ever handed to unweave
AdviceObjs == {"a2", "a3", "a4", "a5"}  \* instances of class Advice
Args == {1, 5}                  \* argument values of a call
NoArg == 0                     \* kwargs of an executor before any call

\* Advice(impl, uid): a2 and a3 were built with the same uid, a4 and a5 with
\* uids of their own
uuid(a) ==
    CASE a = "a1" -> 1
      [] a \in {"a2", "a3"} -> 2
      [] a = "a4" -> -1
      [] a = "a5" -> -2

\* hash(n) of a small int: the int itself, but -1 is never a hash value
hash(n) == IF n = -1 THEN -2 ELSE n

(***************************************************************************)
(* Containers: class C(object) with a nested class N, and an instance o of *)
(* C.  Members inherited from object are builtins or slot wrappers: they   *)
(* are no python functions, nothing of the class changes when they are     *)
(* visited, and they are left out.                                         *)
(*                                                                         *)
(*   class C(object):                   o = C()                            *)
(*       class N(object):                                                  *)
(*           def __init__(self): ...                                       *)
(*       def __init__(self): ...                                           *)
(*       def m(self): ...                                                  *)
(*                                                                         *)
(* References to the method m: through the class (C.m), through the        *)
(* instances o and p of C (o.m, p.m), and through a subclass B(C) that     *)
(* inherits it (B.m).                                                      *)
(***************************************************************************)
Classes == {"C", "N"}
Instances == {"o"}
Methods == {"o.__init__", "o.m", "p.m", "B.m"}   \* method objects
MemberFuncs == {"C.__init__", "C.m", "N.__init__"}
Functions == Funcs \cup MemberFuncs

NoFunc == ""

\* variant: the method of an instance has a function of its own, the class
\* and the subclass another one
method_func_own(t) ==
    CASE t = "o.__init__" -> "C.__init__"
      [] t \in {"o.m", "p.m"} -> "N.__init__"
      [] t = "B.m" -> "C.m"

\* method.__func__
method_func(t) ==
    CASE t = "o.__init__" -> "C.__init__"
      [] t \in {"o.m", "p.m", "B.m"} -> "C.m"

\* getattr(cls, '__init__', cls.__new__)
constructor(t) == IF t = "C" THEN "C.__init__" ELSE "N.__init__"

\* the `__name__` of an object, as its characters ('' when it has none)
Chars_init == <<"_", "_", "i", "n", "i", "t", "_", "_">>
__name__(t) ==
    CASE t \in {"C.__init__", "N.__init__", "o.__init__"} -> Chars_init
      [] t \in {"C.m", "o.m", "p.m", "B.m"} -> <<"m">>
      [] t = "f" -> <<"f">>
      [] t = "C" -> <<"C">>
      [] t = "N" -> <<"N">>
      [] OTHER -> <<>>

\* inspect.getmembers(t): the members that are classes or python routines,
\* sorted by name ('N' < '__init__' < 'm'); a method object holds its
\* function as `__func__`; a function holds no python routine; D is a class
\* whose attributes m and n are both the function C.m
members(t) ==
    CASE t = "C" -> <<"N", "C.__init__", "C.m">>
      [] t = "D" -> <<"C.m", "C.m">>
      [] t = "o" -> <<"N", "o.__init__", "o.m">>
      [] t = "N" -> <<"N.__init__">>
      [] t \in Methods -> <<method_func(t)>>
      [] OTHER -> <<>>

\* inspect.isroutine
isroutine(t) == t \in Functions \cup Methods

Targets == Functions \cup Methods \cup Classes \cup Instances

Behaviours == {"proceed", "double", "skip", "twice", "raise"}
BodyOutcomes == {"return", "raise"}
SkipValue == 0

NoneV == <<>>
Some(v) == <<v>>
IsNone(o) == o = <<>>
Val(o) == o[1]

Ret(v) == [kind |-> "ret", val |-> v, exc |-> ""]
Exc(name) == [kind |-> "exc", val |-> 0, exc |-> name]

RECURSIVE SeqsUpTo(_, _)
SeqsUpTo(S, n) ==
    IF n = 0 THEN {<<>>}
    ELSE LET shorter == SeqsUpTo(S, n - 1)
         IN shorter \cup {Append(s, a) : s \in {t \in shorter : Len(t) = n - 1}, a \in S}

(***************************************************************************)
(* joinpoint.py                                                            *)
(***************************************************************************)
\* get_function: the function of a method, a function itself, the constructor
\* of a class
get_function(j) ==
    IF j \in Methods THEN method_func(j)
    ELSE IF j \in Functions THEN j
    ELSE IF j \in Classes THEN constructor(j)
    ELSE NoFunc

\* is_intercepted: the function carries the `_intercepted` attribute
is_intercepted(j) == fintercepted[get_function(j)]

\* variant: every weave installs the interception
needs_binding_always(j) == TRUE

\* _weave, `if not is_intercepted(joinpoint)`: the interception is installed
needs_binding(j) == ~is_intercepted(j)

\* _apply_interception: the function gets the interception code, which holds
\* the executor e as a constant, and the `_intercepted` attribute
apply_code(j, e) == [fcode EXCEPT ![get_function(j)] = e]
apply_intercepted(j) == [fintercepted EXCEPT ![get_function(j)] = TRUE]

apply_joinpoint(j) == [fjoinpoint EXCEPT ![get_function(j)] = TRUE]

\* variant: the interception code stays on the function
unapply_code_kept(j) == fcode

\* variant: the `_intercepted` attribute stays on the function
unapply_intercepted_kept(j) == fintercepted

\* _unapply_interception: the old code is put back, `_intercepted` is deleted
unapply_code(j) == [fcode EXCEPT ![get_function(j)] = "original"]
unapply_intercepted(j) == [fintercepted EXCEPT ![get_function(j)] = FALSE]

(***************************************************************************)
(* advice.py: the registry                                                 *)
(***************************************************************************)
\* Advice.__hash__: the hash of the uid
__hash__(a) == hash(uuid(a))

\* variant: an Advice object is equal to itself only
__eq___same(a, b) == a = b

\* Advice.__eq__: the other is an Advice instance with the same uid
__eq__(a, b) == b \in AdviceObjs /\ uuid(b) = uuid(a)

\* a == b: the same object, or Advice.__eq__ of an Advice instance
AdviceEq(a, b) == a = b \/ (a \in AdviceObjs /\ __eq__(a, b))

\* `advice in advices`
InAdvices(a, R) == \E r \in R : AdviceEq(a, r)

\* getattr(joinpoint, _ADVICES, [])
attr_advices(j) == IF IsNone(fadvices[j]) THEN <<>> ELSE Val(fadvices[j])

\* get_advices: None when not intercepted, else a tuple of the attribute
get_advices(j) ==
    IF is_intercepted(j) THEN Some(attr_advices(get_function(j))) ELSE NoneV

\* variant: the given advices are put in front of the list
_add_advices_prepend(j, A) == A \o attr_advices(j)

\* _add_advices: the given advices are appended, in their order
_add_advices(j, A) == attr_advices(j) \o A

\* variant: the named advices are the ones that stay
_remove_advices_kept(j, R) ==
    IF IsNone(R) THEN <<>>
    ELSE SelectSeq(attr_advices(j), LAMBDA a : InAdvices(a, Val(R)))

\* variant: every advice is removed, whatever the advices named
_remove_advices_all(j, R) == <<>>

\* _remove_advices: what is left of the list; R = None removes everything
_remove_advices(j, R) ==
    IF IsNone(R) THEN <<>>
    ELSE SelectSeq(attr_advices(j), LAMBDA a : ~InAdvices(a, Val(R)))

(***************************************************************************)
(* advice.py: AdvicesExecutor                                              *)
(***************************************************************************)
\* AdvicesExecutor() followed by apply_pointcut(joinpoint): the intercepted
\* setter stores callee and the intercepted function
NewExecutor(j) ==
    [callee |-> j, intercepted |-> j, advices |-> <<>>, iter |-> 0, kwargs |-> NoArg,
     context |-> {}]

\* an executor no code refers to
FreeExecutor == [callee |-> "", intercepted |-> "", advices |-> <<>>, iter |-> 0,
                 kwargs |-> NoArg, context |-> {}]

\* the frame of a call in flight, of the caller or of a thread, refers to e
InFlight(e) ==
    \/ \E i \in DOMAIN stack : stack[i].e = e
    \/ \E t \in DOMAIN threads :
          \E i \in DOMAIN threads[t].stack : threads[t].stack[i].e = e

\* the executor a binding allocates: one that neither a function code nor a
\* call in flight refers to
FreshExec == CHOOSE e \in ExecIds : (\A j \in Functions : fcode[j] # e) /\ ~InFlight(e)

\* variant: an executor is dropped with the binding, whatever calls it runs
Collect_eager(xs, code) ==
    [e \in ExecIds |-> IF \E j \in Functions : code[j] = e THEN xs[e] ELSE FreeExecutor]

\* executors that neither a code nor a call in flight refers to any more are
\* dropped; the code object a running frame executes keeps its executor
Collect(xs, code) ==
    [e \in ExecIds |->
        IF (\E j \in Functions : code[j] = e) \/ InFlight(e) THEN xs[e] ELSE FreeExecutor]

\* variant: the advices of the callee are never loaded
ExecInit_noload(x) == IF x.iter # 0 THEN x ELSE [x EXCEPT !.iter = 1]

\* execute, initialisation: when the iterator is None, advices are loaded from
\* the callee if the executor holds none, and a new iterator is made
ExecInit(x) ==
    IF x.iter # 0 THEN x
    ELSE LET g == get_advices(x.callee)
             loaded == IF x.advices # <<>> THEN x.advices
                       ELSE IF IsNone(g) THEN <<>> ELSE Val(g)
         IN [x EXCEPT !.advices = loaded, !.iter = 1]

\* variant: an exception of the callee is turned into a None result
execute_return_swallow(out) == IF out.kind = "exc" THEN Ret(0) ELSE out

\* execute, `return advice(self)` / `return self._intercepted(...)`: what the
\* callee returned or raised is what execute returns or raises
execute_return(out) == out

\* variant: the handler runs whatever the enable flag
HandlerChoices_always(a) == Behaviours

\* Advice.apply: the handler runs if the advice is enabled, else execute() is
\* called on its behalf; a plain callable always runs
HandlerChoices(a) ==
    IF a \in AdviceObjs /\ ~enable[a] THEN {"disabled"} ELSE Behaviours

\* handler invocations recorded so far that did not just proceed once
Deviations == Cardinality({i \in DOMAIN log : log[i].beh \in Behaviours \ {"proceed"}})

Allowed(b) == b \in {"proceed", "disabled"} \/ Deviations < MaxDeviations

(***************************************************************************)
(* Frames: the interception function ("root") and the advice invocations   *)
(***************************************************************************)
Frame(e, a, b) == [e |-> e, adv |-> a, beh |-> b, n |-> 0, got |-> Ret(0)]

Proceeds(b) == IF b \in {"skip", "raise"} THEN 0 ELSE IF b = "twice" THEN 2 ELSE 1

Failed(fr) == fr.n > 0 /\ fr.got.kind = "exc"

WantsProceed(fr) == ~Failed(fr) /\ fr.n < Proceeds(fr.beh)

FrameOutcome(fr) ==
    IF Failed(fr) THEN fr.got
    ELSE IF fr.beh = "skip" THEN Ret(SkipValue)
    ELSE IF fr.beh = "raise" THEN Exc("HandlerError")
    ELSE IF fr.beh = "double" THEN Ret(2 * fr.got.val)
    ELSE IF fr.beh = "recurse" THEN Ret(5 + fr.got.val)
    ELSE fr.got

Deliver(stk, out) ==
    [stk EXCEPT ![Len(stk)] = [@ EXCEPT !.n = @ + 1, !.got = out]]

Top == stack[Len(stack)]

AdvEvent(a, b) == [who |-> a, beh |-> b, arg |-> 0]
BodyEvent(j, x, bo) == [who |-> j, beh |-> IF bo = "raise" THEN "bodyraise" ELSE "body", arg |-> x]

BodyOutcome(x, bo) == IF bo = "raise" THEN Exc("BodyError") ELSE Ret(x)

Idle == stack = <<>>

NoCall == [j |-> "", x |-> 0, advs |-> NoneV, bound |-> FALSE, pending |-> FALSE,
           fresh |-> FALSE, wchain |-> <<>>]

(***************************************************************************)
(* Operations                                                              *)
(***************************************************************************)
\* weave(joinpoint=j, advices=A), pointcut None: _weave binds j if it is not
\* intercepted, then appends A
Weave(j, A) ==
    /\ Idle
    /\ Len(attr_advices(j)) + Len(A) <= MaxAdvices
    /\ LET bind == needs_binding(j)
           e == FreshExec
       IN /\ fcode' = IF bind THEN apply_code(j, e) ELSE fcode
          /\ fintercepted' = IF bind THEN apply_intercepted(j) ELSE fintercepted
          /\ ex' = IF bind THEN [ex EXCEPT ![e] = NewExecutor(j)] ELSE ex
          /\ fadvices' = [fadvices EXCEPT ![get_function(j)] = Some(_add_advices(get_function(j), A))]
          /\ wchain' = [wchain EXCEPT ![j] =
                           IF bind THEN <<A>>
                           ELSE IF @ # <<>> /\ Len(@) < 2 THEN Append(@, A) ELSE <<>>]
          /\ fjoinpoint' = IF bind THEN apply_joinpoint(j) ELSE fjoinpoint
    /\ result' = NoneV /\ log' = <<>> /\ cur' = NoCall
    /\ UNCHANGED <<enable, stack>>
    /\ UNCHANGED apivars

\* unweave(joinpoint=j, advices=R), pointcut None: _unweave removes from an
\* intercepted j, and _remove_advices unbinds j when nothing is left
Unweave(j, R) ==
    /\ Idle
    /\ IF is_intercepted(j)
       THEN LET left == _remove_advices(get_function(j), R)
            IN IF left # <<>>
               THEN /\ fadvices' = [fadvices EXCEPT ![get_function(j)] = Some(left)]
                    /\ UNCHANGED <<fcode, fintercepted, ex>>
               ELSE /\ fadvices' = [fadvices EXCEPT ![get_function(j)] = NoneV]
                    /\ fcode' = unapply_code(j)
                    /\ fintercepted' = unapply_intercepted(j)
                    /\ ex' = Collect(ex, fcode')
       ELSE UNCHANGED <<fadvices, fcode, fintercepted, ex>>
    /\ wchain' = [wchain EXCEPT ![j] = <<>>]
    /\ result' = NoneV /\ log' = <<>> /\ cur' = NoCall
    /\ UNCHANGED <<enable, stack, fjoinpoint>>
    /\ UNCHANGED apivars

\* Advice.enable setter
SetEnable(a, v) ==
    /\ Idle
    /\ enable[a] # v
    /\ enable' = [enable EXCEPT ![a] = v]
    /\ result' = NoneV /\ log' = <<>> /\ cur' = NoCall
    /\ UNCHANGED <<fadvices, fintercepted, fjoinpoint, fcode, ex, stack, wchain>>
    /\ UNCHANGED apivars

Observed(j, x) ==
    [j |-> j, x |-> x, advs |-> get_advices(j),
     bound |-> fcode[j] # "original",
     pending |-> fcode[j] # "original" /\ ex[fcode[j]].iter = 0,
     fresh |-> /\ fcode[j] # "original"
               /\ ex[fcode[j]].iter = 0
               /\ ex[fcode[j]].advices = <<>>,
     wchain |-> wchain[j]]

\* the caller calls j(x): original code runs the body; interception code
\* stores the arguments in its executor and returns executor.execute()
Call(j, x) ==
    /\ Idle
    /\ cur' = Observed(j, x)
    /\ wchain' = [wchain EXCEPT ![j] = <<>>]
    /\ IF fcode[j] = "original"
       THEN \E bo \in BodyOutcomes :
               /\ log' = <<BodyEvent(j, x, bo)>>
               /\ result' = Some(BodyOutcome(x, bo))
               /\ UNCHANGED <<stack, ex>>
       ELSE /\ ex' = [ex EXCEPT ![fcode[j]].kwargs = x]
            /\ stack' = <<Frame(fcode[j], "", "root")>>
            /\ log' = <<>>
            /\ result' = NoneV
    /\ UNCHANGED <<fadvices, fintercepted, fjoinpoint, fcode, enable>>
    /\ UNCHANGED apivars

\* AdvicesExecutor.execute called by the top frame: the next advice is applied
\* on the executor, or the chain is exhausted and the intercepted body is called
Proceed ==
    /\ ~Idle
    /\ WantsProceed(Top)
    /\ LET e == Top.e
           x1 == ExecInit(ex[e])
       IN IF x1.iter <= Len(x1.advices)
          THEN LET a == x1.advices[x1.iter]
               IN \E b \in {c \in HandlerChoices(a) : Allowed(c)} :
                     /\ ex' = [ex EXCEPT ![e] = [x1 EXCEPT !.iter = @ + 1]]
                     /\ stack' = Append(stack, Frame(e, a, b))
                     /\ log' = Append(log, AdvEvent(a, b))
          ELSE \E bo \in BodyOutcomes :
                  /\ ex' = [ex EXCEPT ![e] = [x1 EXCEPT !.iter = 0]]
                  /\ log' = Append(log, BodyEvent(x1.intercepted, x1.kwargs, bo))
                  /\ stack' = Deliver(stack, execute_return(BodyOutcome(x1.kwargs, bo)))
    /\ UNCHANGED <<fadvices, fintercepted, fjoinpoint, fcode, enable, result, cur, wchain>>
    /\ UNCHANGED apivars

\* execute applies the next advice, whose handler looks for the key "k" in
\* advicesexecutor.context, stores it there, and then calls execute once and
\* returns what it returns; the event says whether the handler found the key
ProceedStash ==
    /\ ~Idle
    /\ WantsProceed(Top)
    /\ LET e == Top.e
           x1 == ExecInit(ex[e])
       IN /\ x1.iter <= Len(x1.advices)
          /\ LET a == x1.advices[x1.iter]
                 b == IF "k" \in x1.context THEN "found" ELSE "stored"
             IN /\ "proceed" \in HandlerChoices(a)
                /\ ex' = [ex EXCEPT ![e] = [x1 EXCEPT !.iter = @ + 1,
                                                      !.context = @ \cup {"k"}]]
                /\ stack' = Append(stack, Frame(e, a, b))
                /\ log' = Append(log, AdvEvent(a, b))
    /\ UNCHANGED <<fadvices, fintercepted, fjoinpoint, fcode, enable, result, cur, wchain>>
    /\ UNCHANGED apivars

\* variant: the iterator is left where it is when the advices are exhausted
exhausted_keep(x) == x

\* execute, StopIteration branch: the iterator is set to None before the
\* intercepted body is called
exhausted(x) == [x EXCEPT !.iter = 0]

\* the chain is exhausted and the intercepted body is called with 5; this body
\* is `return x if x != 5 else 5 + j(1)`: it calls the joinpoint by its name,
\* whose interception code stores the argument 1 in its executor and calls
\* execute; the frame of the body waits for what the inner call returns
ProceedRecursive ==
    /\ ~Idle
    /\ WantsProceed(Top)
    /\ LET e == Top.e
           x1 == ExecInit(ex[e])
           g == x1.intercepted
       IN /\ x1.iter > Len(x1.advices)
          /\ x1.kwargs = 5
          /\ fcode[g] # "original"
          /\ LET xs == [ex EXCEPT ![e] = exhausted(x1)]
             IN ex' = [xs EXCEPT ![fcode[g]].kwargs = 1]
          /\ log' = Append(log, [who |-> g, beh |-> "recurse", arg |-> 5])
          /\ stack' = stack \o <<Frame(e, "", "recurse"), Frame(fcode[g], "", "root")>>
    /\ UNCHANGED <<fadvices, fintercepted, fjoinpoint, fcode, enable, result, cur, wchain>>
    /\ UNCHANGED apivars

\* frames that have nothing left to do return (or raise) to their callers, up
\* to a frame that calls execute again or to the caller of the joinpoint
RECURSIVE Unwind(_)
Unwind(stk) ==
    LET out == FrameOutcome(stk[Len(stk)])
        rest == SubSeq(stk, 1, Len(stk) - 1)
    IN IF rest = <<>> THEN [stack |-> <<>>, result |-> Some(out)]
       ELSE LET d == Deliver(rest, execute_return(out))
            IN IF WantsProceed(d[Len(d)]) THEN [stack |-> d, result |-> NoneV]
               ELSE Unwind(d)

Return ==
    /\ ~Idle
    /\ ~WantsProceed(Top)
    /\ LET r == Unwind(stack)
       IN /\ stack' = r.stack
          /\ result' = r.result
    /\ UNCHANGED <<fadvices, fintercepted, fjoinpoint, fcode, ex, enable, log, cur, wchain>>
    /\ UNCHANGED apivars

(***************************************************************************)
(* advice.py: pointcuts, depth and the public filter                       *)
(***************************************************************************)
Range(s) == {s[i] : i \in DOMAIN s}

\* a pointcut argument: None, a str (a regular expression made of a literal
\* and an optional final '$'), a callable (here: true on the routines whose
\* name it accepts), or a value of another type
PcNone == [kind |-> "none", lit |-> <<>>, end |-> FALSE, accepts |-> {}]
PcStr(lit, end) == [kind |-> "str", lit |-> lit, end |-> end, accepts |-> {}]
PcCallable(names) == [kind |-> "callable", lit |-> <<>>, end |-> FALSE, accepts |-> names]
PcInt == [kind |-> "int", lit |-> <<>>, end |-> FALSE, accepts |-> {}]

\* a callable that is true on the routines whose name it accepts and raises
\* on the routine named bad
PcRaising(names, bad) == [kind |-> "raising", lit |-> bad, end |-> FALSE, accepts |-> names]

\* the callable inspect.isfunction: true on functions, false on method objects
PcIsFunction == [kind |-> "isfunction", lit |-> <<>>, end |-> FALSE, accepts |-> {}]

\* re.match: the pattern matches at the start of the name; '$' asks for its end
re_match(lit, end, nm) ==
    /\ Len(nm) >= Len(lit)
    /\ SubSeq(nm, 1, Len(lit)) = lit
    /\ end => Len(nm) = Len(lit)

\* _namematcher(regex): a callable that matches the `__name__` of a joinpoint
_namematcher(pc) == [pc EXCEPT !.kind = "matcher"]

\* str.format: a replacement field {i} needs a positional argument number i
format_error(fields, nargs) ==
    IF \E i \in fields : i >= nargs THEN "IndexError" ELSE ""

\* weave / unweave, "initialize pointcut": what is raised for this pointcut.
\* The message of the AdviceError is built first, with "Not {1}".format(type)
pointcut_error(pc) ==
    IF pc.kind \in {"none", "callable", "raising", "isfunction", "str"} THEN ""
    ELSE IF format_error({1}, 1) # "" THEN format_error({1}, 1)
    ELSE "AdviceError"

\* weave / unweave, "initialize pointcut": the pointcut handed to _weave
pointcut_init(pc) == IF pc.kind = "str" THEN _namematcher(pc) ELSE pc

\* variant: every routine passes the pointcut
pointcut_applies_any(pc, t) == TRUE

\* `pointcut is None or pointcut(joinpoint)`
pointcut_applies(pc, t) ==
    \/ pc.kind = "none"
    \/ pc.kind = "matcher" /\ re_match(pc.lit, pc.end, __name__(t))
    \/ pc.kind \in {"callable", "raising"} /\ __name__(t) \in pc.accepts
    \/ pc.kind = "isfunction" /\ t \in Functions

\* `pointcut(joinpoint)` raises
pointcut_raises(pc, t) == pc.kind = "raising" /\ __name__(t) = pc.lit

\* variant: members are public whatever their name
_publicmembers_all(t) == TRUE

\* _publicmembers: callable, and the name does not start with '_'
_publicmembers(t) == __name__(t) = <<>> \/ __name__(t)[1] # "_"

\* depth_predicate=_publicmembers if public else callable
depth_predicate(public, t) == IF public THEN _publicmembers(t) ELSE TRUE

\* getmembers(joinpoint, depth_predicate)
getmembers(t, public) == SelectSeq(members(t), LAMBDA m : depth_predicate(public, m))

\* variant: members are searched whatever the depth left
descend_always(depth) == TRUE

\* `elif depth > 0`
descend(depth) == depth > 0

\* _weave / _unweave: the interception functions reached from the joinpoints
\* ts, in the order they are reached
RECURSIVE _weave_visit(_, _, _, _)
_weave_visit(ts, pc, depth, public) ==
    IF ts = <<>> THEN <<>>
    ELSE LET t == Head(ts)
             here == IF isroutine(t) /\ pointcut_applies(pc, t)
                     THEN IF get_function(t) # NoFunc THEN <<get_function(t)>> ELSE <<>>
                     ELSE IF descend(depth)
                          THEN _weave_visit(getmembers(t, public), pc, depth - 1, public)
                          ELSE <<>>
         IN here \o _weave_visit(Tail(ts), pc, depth, public)

\* _weave / _unweave with a pointcut that may raise: the traversal stops at
\* the first routine the pointcut raises on; hit holds the interception
\* functions reached before, err what the pointcut raised
RECURSIVE _weave_walk(_, _, _, _)
_weave_walk(ts, pc, depth, public) ==
    IF ts = <<>> THEN [hit |-> <<>>, err |-> ""]
    ELSE LET t == Head(ts)
             here == IF isroutine(t) /\ pointcut_raises(pc, t)
                     THEN [hit |-> <<>>, err |-> "PredicateError"]
                     ELSE IF isroutine(t) /\ pointcut_applies(pc, t)
                     THEN [hit |-> IF get_function(t) # NoFunc THEN <<get_function(t)>>
                                   ELSE <<>>,
                           err |-> ""]
                     ELSE IF descend(depth)
                     THEN _weave_walk(getmembers(t, public), pc, depth - 1, public)
                     ELSE [hit |-> <<>>, err |-> ""]
         IN IF here.err # "" THEN here
            ELSE LET rest == _weave_walk(Tail(ts), pc, depth, public)
                 IN [hit |-> here.hit \o rest.hit, err |-> rest.err]

\* how a weave or unweave call ended: the error it raised, or the functions
\* (and the number of the timer) it returned
Returned(op, fs) == [op |-> op, err |-> "", intercepted |-> fs, timer |-> 0]
Raised(op, e) == [op |-> op, err |-> e, intercepted |-> <<>>, timer |-> 0]

\* Timer(ttl, unweave, kwargs=kwargs), started
Timer(t, A, pc, depth, public) ==
    [joinpoint |-> t, advices |-> A, pointcut |-> pc, depth |-> depth,
     public |-> public, state |-> "started"]

\* _weave on the functions it reached: those that are not intercepted get the
\* interception code of the one executor of this weave call, whose callee is
\* set again by each binding; the advices are appended to each of them, once
\* for every time the function is reached
_weave(hit, A) ==
    LET fresh == SelectSeq(hit, LAMBDA g : needs_binding(g))
        e == FreshExec
        times(g) == Cardinality({i \in DOMAIN hit : hit[i] = g})
        given(g) == IF times(g) = 1 THEN A
                    ELSE [i \in 1..(times(g) * Len(A)) |-> A[((i - 1) % Len(A)) + 1]]
    IN [fadvices |-> [g \in Functions |->
                        IF g \in Range(hit) THEN Some(_add_advices(g, given(g)))
                        ELSE fadvices[g]],
        fcode |-> [g \in Functions |->
                     IF g \in Range(fresh) THEN apply_code(g, e)[g] ELSE fcode[g]],
        fintercepted |-> [g \in Functions |->
                            IF g \in Range(fresh) THEN apply_intercepted(g)[g]
                            ELSE fintercepted[g]],
        fjoinpoint |-> [g \in Functions |->
                          IF g \in Range(fresh) THEN apply_joinpoint(g)[g]
                          ELSE fjoinpoint[g]],
        ex |-> IF fresh = <<>> THEN ex
               ELSE [ex EXCEPT ![e] = NewExecutor(fresh[Len(fresh)])]]

\* _unweave, `if is_intercepted(joinpoint)`
unweave_touches(g) == is_intercepted(g)

\* _unweave on the functions it reached: _remove_advices on those that are
\* intercepted; a function left without advice is unbound
_unweave(hit, R) ==
    LET touched == {g \in Range(hit) : unweave_touches(g)}
        emptied == {g \in touched : _remove_advices(g, R) = <<>>}
        code == [g \in Functions |->
                    IF g \in emptied THEN unapply_code(g)[g] ELSE fcode[g]]
    IN [fadvices |-> [g \in Functions |->
                        IF g \in emptied THEN NoneV
                        ELSE IF g \in touched THEN Some(_remove_advices(g, R))
                        ELSE fadvices[g]],
        fcode |-> code,
        fintercepted |-> [g \in Functions |->
                            IF g \in emptied THEN unapply_intercepted(g)[g]
                            ELSE fintercepted[g]],
        fjoinpoint |-> fjoinpoint,
        ex |-> Collect(ex, code)]

\* the attributes, codes and executors as they are
Unchanged ==
    [fadvices |-> fadvices, fcode |-> fcode, fintercepted |-> fintercepted,
     fjoinpoint |-> fjoinpoint, ex |-> ex]

\* variant: an empty advice list is accepted
advices_error_none(A) == ""

\* weave, "check for not empty advices"
advices_error(A) == IF A = <<>> THEN "AdviceError" ELSE ""

\* variant: a weave that fails takes back what it has woven
weave_partial_rollback(hit, A) == Unchanged

\* what a weave leaves behind when its traversal stops on an error: _weave
\* has bound and appended on the functions it reached before, and nothing
\* undoes it
weave_partial(hit, A) == _weave(hit, A)

\* weave(joinpoint=t, advices=A, pointcut=pc, depth=depth, public=public):
\* what the call returns or raises, and what it leaves behind: the checks of
\* the arguments, then _weave
weave(t, A, pc, depth, public) ==
    IF advices_error(A) # ""
    THEN [res |-> Raised("weave", advices_error(A)), after |-> Unchanged]
    ELSE IF pointcut_error(pc) # ""
    THEN [res |-> Raised("weave", pointcut_error(pc)), after |-> Unchanged]
    ELSE IF pc.kind = "raising"
    THEN LET walk == _weave_walk(<<t>>, pc, depth, public)
         IN IF walk.err # ""
            THEN [res |-> Raised("weave", walk.err), after |-> weave_partial(walk.hit, A)]
            ELSE [res |-> Returned("weave", walk.hit), after |-> _weave(walk.hit, A)]
    ELSE LET hit == _weave_visit(<<t>>, pointcut_init(pc), depth, public)
         IN [res |-> Returned("weave", hit), after |-> _weave(hit, A)]

\* unweave(joinpoint=t, advices=R, pointcut=pc, depth=depth, public=public)
unweave(t, R, pc, depth, public) ==
    IF pointcut_error(pc) # ""
    THEN [res |-> Raised("unweave", pointcut_error(pc)), after |-> Unchanged]
    ELSE IF pc.kind = "raising"
    THEN LET walk == _weave_walk(<<t>>, pc, depth, public)
         IN [res |-> IF walk.err # "" THEN Raised("unweave", walk.err)
                     ELSE Returned("unweave", <<>>),
             after |-> _unweave(walk.hit, R)]
    ELSE [res |-> Returned("unweave", <<>>),
          after |-> _unweave(_weave_visit(<<t>>, pointcut_init(pc), depth, public), R)]

\* weave, `if ttl is not None`: the timer made once _weave has returned
weave_timer(t, A, pc, depth, public, ttl) ==
    IF ttl /\ weave(t, A, pc, depth, public).res.err = ""
    THEN Some(Timer(t, A, pointcut_init(pc), depth, public))
    ELSE NoneV

\* the attributes, codes and executors become what a call left behind
Becomes(after) ==
    /\ fadvices' = after.fadvices
    /\ fcode' = after.fcode
    /\ fintercepted' = after.fintercepted
    /\ fjoinpoint' = after.fjoinpoint
    /\ ex' = after.ex

\* the advice lists of a weave stay within the bound
WithinBound(t, A, pc, depth, public) ==
    LET reached == IF pc.kind = "raising"
                   THEN _weave_walk(<<t>>, pc, depth, public).hit
                   ELSE weave(t, A, pc, depth, public).res.intercepted
    IN \A g \in Range(reached) : Len(attr_advices(g)) + Len(A) <= MaxAdvices

\* a caller calls weave(t, A, pc, depth, public, ttl=...); with a ttl and no
\* error, a timer that holds the arguments is made and started
WeaveApi(t, A, pc, depth, public, ttl) ==
    /\ Idle
    /\ WithinBound(t, A, pc, depth, public)
    /\ LET w == weave(t, A, pc, depth, public)
           tm == weave_timer(t, A, pc, depth, public, ttl)
       IN /\ ~IsNone(tm) => Len(timers) < MaxTimers
          /\ Becomes(w.after)
          /\ timers' = IF IsNone(tm) THEN timers ELSE Append(timers, Val(tm))
          /\ wres' = [w.res EXCEPT !.timer = IF IsNone(tm) THEN 0 ELSE Len(timers')]
    /\ result' = NoneV /\ log' = <<>> /\ cur' = NoCall
    /\ UNCHANGED <<enable, stack, wchain, threads, snap, ops>>

\* a caller calls unweave(t, R, pc, depth, public)
UnweaveApi(t, R, pc, depth, public) ==
    /\ Idle
    /\ LET u == unweave(t, R, pc, depth, public)
       IN /\ Becomes(u.after)
          /\ wres' = u.res
    /\ result' = NoneV /\ log' = <<>> /\ cur' = NoCall
    /\ UNCHANGED <<enable, stack, wchain, threads, snap, ops, timers>>

\* variant: a timer runs its function whether or not it was cancelled
timer_runs_always(tm) == tm.state # "fired"

\* Timer.run: the function is called unless cancel() was called before
timer_runs(tm) == tm.state = "started"

\* what the timer thread of tm calls: unweave(**kwargs) with the values its
\* weave call captured
timer_function(tm) ==
    unweave(tm.joinpoint, Some(Range(tm.advices)), tm.pointcut, tm.depth, tm.public)

\* the timer thread of timers[i] wakes up after ttl and runs its function
TimerFire(i) ==
    /\ Idle
    /\ timer_runs(timers[i])
    /\ Becomes(timer_function(timers[i]).after)
    /\ timers' = [timers EXCEPT ![i].state = "fired"]
    /\ result' = NoneV /\ log' = <<>> /\ cur' = NoCall
    /\ UNCHANGED <<enable, stack, wchain, threads, snap, ops, wres>>

\* timer.cancel() on the timer a weave call returned
TimerCancel(i) ==
    /\ Idle
    /\ timers[i].state = "started"
    /\ timers' = [timers EXCEPT ![i].state = "cancelled"]
    /\ result' = NoneV /\ log' = <<>> /\ cur' = NoCall
    /\ UNCHANGED <<fadvices, fintercepted, fjoinpoint, fcode, ex, enable, stack, wchain,
                   threads, snap, ops, wres>>

\* variant: the decorator weaves on public members only
weave_on_public(A, pc, depth, t) ==
    LET w == weave(t, A, pc, depth, TRUE)
    IN [res |-> IF w.res.err # "" THEN Raised("weave_on", w.res.err)
                ELSE Returned("weave_on", <<t>>),
        after |-> w.after]

\* weave_on(advices, pointcut, depth)(joinpoint): weave is called with these
\* arguments (public and ttl keep their defaults) and the joinpoint itself is
\* returned; what weave raises is raised
weave_on(A, pc, depth, t) ==
    LET w == weave(t, A, pc, depth, FALSE)
    IN [res |-> IF w.res.err # "" THEN Raised("weave_on", w.res.err)
                ELSE Returned("weave_on", <<t>>),
        after |-> w.after]

\* a declaration is decorated with @weave_on(A, pc, depth)
WeaveOnApi(A, pc, depth, t) ==
    /\ Idle
    /\ WithinBound(t, A, pc, depth, FALSE)
    /\ LET w == weave_on(A, pc, depth, t)
       IN /\ Becomes(w.after)
          /\ wres' = w.res
    /\ result' = NoneV /\ log' = <<>> /\ cur' = NoCall
    /\ UNCHANGED <<enable, stack, wchain, threads, snap, ops, timers>>

(***************************************************************************)
(* Threads that call a joinpoint at the same time                          *)
(***************************************************************************)
Threads == {"t1", "t2"}

\* a thread that has made no call: the joinpoint and argument of its call, the
\* frames of the call, what the call applied, its result, the calls it made
NoThreadCall ==
    [j |-> "", x |-> 0, stack |-> <<>>, log |-> <<>>, result |-> NoneV, calls |-> 0]

ThreadsIdle == \A t \in Threads : threads[t].stack = <<>>

sharedvars == <<fadvices, fintercepted, fjoinpoint, fcode, enable>>
mainvars == <<stack, result, log, cur, wchain, wres, timers, snap, ops>>

\* thread t calls the woven j(x): the interception code stores the arguments
\* in the executor bound into the code of j, then calls its execute
ThreadCall(t, j, x) ==
    /\ threads[t].stack = <<>>
    /\ threads[t].calls < MaxThreadCalls
    /\ fcode[j] # "original"
    /\ ex' = [ex EXCEPT ![fcode[j]].kwargs = x]
    /\ threads' = [threads EXCEPT ![t] =
                      [j |-> j, x |-> x, stack |-> <<Frame(fcode[j], "", "root")>>,
                       log |-> <<>>, result |-> NoneV, calls |-> @.calls + 1]]
    /\ UNCHANGED <<sharedvars, mainvars>>

\* AdvicesExecutor.execute called by the top frame of thread t, on the
\* executor every thread shares; the handlers call execute once and return
\* what it returns, the body returns its argument
ThreadProceed(t) ==
    /\ threads[t].stack # <<>>
    /\ LET stk == threads[t].stack
           top == stk[Len(stk)]
           e == top.e
           x1 == ExecInit(ex[e])
       IN /\ WantsProceed(top)
          /\ IF x1.iter <= Len(x1.advices)
             THEN LET a == x1.advices[x1.iter]
                      b == IF "proceed" \in HandlerChoices(a) THEN "proceed" ELSE "disabled"
                  IN /\ ex' = [ex EXCEPT ![e] = [x1 EXCEPT !.iter = @ + 1]]
                     /\ threads' = [threads EXCEPT
                                       ![t].stack = Append(stk, Frame(e, a, b)),
                                       ![t].log = Append(@, AdvEvent(a, b))]
             ELSE /\ ex' = [ex EXCEPT ![e] = [x1 EXCEPT !.iter = 0]]
                  /\ threads' = [threads EXCEPT
                                    ![t].stack = Deliver(stk,
                                        execute_return(BodyOutcome(x1.kwargs, "return"))),
                                    ![t].log = Append(@,
                                        BodyEvent(x1.intercepted, x1.kwargs, "return"))]
    /\ UNCHANGED <<sharedvars, mainvars>>

\* the frames of thread t that have nothing left to do return
ThreadReturn(t) ==
    /\ threads[t].stack # <<>>
    /\ ~WantsProceed(threads[t].stack[Len(threads[t].stack)])
    /\ LET r == Unwind(threads[t].stack)
       IN threads' = [threads EXCEPT ![t].stack = r.stack, ![t].result = r.result]
    /\ UNCHANGED <<sharedvars, mainvars, ex>>

(***************************************************************************)
(* advice.py: the static methods of class Advice                           *)
(***************************************************************************)
\* Advice.set_enable(j, v, ids): `for advice in get_advices(j)` raises
\* TypeError on None; in the loop `isinstance(Advice)` is called with one
\* argument and raises TypeError, which `except ValueError` does not catch,
\* so the flag of no advice is assigned
set_enable(j, v, ids) ==
    LET advices == get_advices(j)
    IN IF IsNone(advices) THEN [err |-> "TypeError", enable |-> enable]
       ELSE IF Val(advices) = <<>> THEN [err |-> "", enable |-> enable]
       ELSE [err |-> "TypeError", enable |-> enable]

\* a caller calls Advice.set_enable(j, v, ids)
AdviceSetEnable(j, v, ids) ==
    /\ Idle
    /\ LET r == set_enable(j, v, ids)
       IN /\ enable' = r.enable
          /\ wres' = IF r.err # "" THEN Raised("set_enable", r.err)
                     ELSE Returned("set_enable", <<>>)
    /\ result' = NoneV /\ log' = <<>> /\ cur' = NoCall
    /\ UNCHANGED <<fadvices, fintercepted, fjoinpoint, fcode, ex, stack, wchain, timers,
                   threads, snap, ops>>

\* Advice.unweave(j, *As): `unweave(joinpoint=joinpoint, *advices)` hands the
\* advices over as positional arguments, the first of which is the parameter
\* joinpoint again, so the call of unweave raises TypeError when As has an
\* entry; with no entry it is unweave(joinpoint=j)
Advice_unweave(j, As) ==
    IF As # <<>> THEN [res |-> Raised("Advice.unweave", "TypeError"), after |-> Unchanged]
    ELSE unweave(j, NoneV, PcNone, 1, FALSE)

\* a caller calls Advice.unweave(j, *As)
AdviceUnweave(j, As) ==
    /\ Idle
    /\ LET w == Advice_unweave(j, As)
       IN Becomes(w.after) /\ wres' = w.res
    /\ result' = NoneV /\ log' = <<>> /\ cur' = NoCall
    /\ UNCHANGED <<enable, stack, wchain, threads, snap, ops, timers>>

(***************************************************************************)
(* get_advices and what its caller holds                                   *)
(***************************************************************************)
\* no get_advices call has been made
NoSnapshot == [of |-> "", val |-> NoneV, at |-> NoneV]

\* variant: get_advices hands out the list of the registry itself
tuple_alias(g) == [obj |-> "list", shares |-> g, items |-> attr_advices(g)]

\* tuple(getattr(joinpoint_function, _ADVICES, ())): a new tuple object with
\* the entries of the list of g, in the order of the list
tuple(g) == [obj |-> "tuple", shares |-> "", items |-> attr_advices(g)]

\* get_advices(j) as an object: None when j is not intercepted, else the tuple
get_advices_object(j) ==
    IF is_intercepted(j) THEN Some(tuple(get_function(j))) ELSE NoneV

\* the entries a holder of the object o reads from it: a tuple holds its own,
\* a shared list holds what the registry holds
items(o) == IF o.shares # "" THEN attr_advices(o.shares) ELSE o.items

\* o.append(a) by a holder of the object o: a tuple has no append, a list
\* shared with the registry grows
object_append(o, a) ==
    IF o.obj = "tuple"
    THEN [res |-> Raised("append", "AttributeError"), after |-> Unchanged]
    ELSE [res |-> Returned("append", <<>>),
          after |-> [Unchanged EXCEPT !.fadvices[o.shares] = Some(Append(items(o), a))]]

\* a caller calls get_advices(j) and keeps what it returns; at records the
\* list of j at the call
GetAdvices(j) ==
    /\ Idle
    /\ snap' = [of |-> j, val |-> get_advices_object(j), at |-> get_advices(j)]
    /\ wres' = Returned("get_advices", <<>>)
    /\ result' = NoneV /\ log' = <<>> /\ cur' = NoCall
    /\ UNCHANGED <<fadvices, fintercepted, fjoinpoint, fcode, ex, enable, stack, wchain,
                   threads, timers, ops>>

\* the caller tries to append a to the object get_advices returned
SnapshotAppend(a) ==
    /\ Idle
    /\ ~IsNone(snap.val)
    /\ Len(items(Val(snap.val))) < MaxAdvices
    /\ LET w == object_append(Val(snap.val), a)
       IN Becomes(w.after) /\ wres' = w.res
    /\ result' = NoneV /\ log' = <<>> /\ cur' = NoCall
    /\ UNCHANGED <<enable, stack, wchain, threads, timers, snap, ops>>

(***************************************************************************)
(* weave and unweave calls of two threads on one function                  *)
(***************************************************************************)
\* no weave or unweave call was made by a thread: the call, how far it is,
\* its joinpoint and advices, the list _remove_advices has built, and the list
\* of the joinpoint when the calls started
NoOp == [op |-> "", stage |-> "", j |-> "", A |-> <<>>, R |-> NoneV, copy |-> NoneV,
         base |-> <<>>]

OpsIdle == \A t \in Threads : ops[t].stage \in {"", "done"}

\* thread t1 calls weave(j, A) and thread t2 (or the thread of a ttl Timer)
\* calls unweave(j, R); neither has run a statement yet
StartRace(j, A, R) ==
    /\ Idle /\ OpsIdle
    /\ Len(attr_advices(j)) + Len(A) <= MaxAdvices
    /\ ops' = [ops EXCEPT
                 !["t1"] = [op |-> "weave", stage |-> "start", j |-> j, A |-> A,
                            R |-> NoneV, copy |-> NoneV, base |-> attr_advices(j)],
                 !["t2"] = [op |-> "unweave", stage |-> "start", j |-> j, A |-> <<>>,
                            R |-> R, copy |-> NoneV, base |-> attr_advices(j)]]
    /\ UNCHANGED <<sharedvars, ex, stack, result, log, cur, wchain, wres, timers, snap,
                   threads>>

\* the weave call of thread t runs: _weave binds j if it is not intercepted
\* and _add_advices appends to the list j has
WeaveStep(t) ==
    /\ ops[t].op = "weave" /\ ops[t].stage = "start"
    /\ Becomes(weave(ops[t].j, ops[t].A, PcNone, 1, FALSE).after)
    /\ ops' = [ops EXCEPT ![t].stage = "done"]
    /\ UNCHANGED <<enable, stack, result, log, cur, wchain, wres, timers, snap, threads>>

\* the unweave call of thread t runs up to the end of the filter of
\* _remove_advices: the is_intercepted test of _unweave, then the new list
\* built from the list j has now
UnweaveRead(t) ==
    /\ ops[t].op = "unweave" /\ ops[t].stage = "start"
    /\ ops' = IF unweave_touches(ops[t].j)
              THEN [ops EXCEPT ![t].stage = "read",
                               ![t].copy = Some(_remove_advices(ops[t].j, ops[t].R))]
              ELSE [ops EXCEPT ![t].stage = "done"]
    /\ UNCHANGED <<sharedvars, ex, stack, result, log, cur, wchain, wres, timers, snap,
                   threads>>

\* the end of _remove_advices with the list l it has built: setattr of l, or
\* for an empty l delattr and _unapply_interception; delattr of an attribute
\* that is not there raises and nothing more is done
_remove_advices_write(g, l) ==
    IF l # <<>> THEN [Unchanged EXCEPT !.fadvices[g] = Some(l)]
    ELSE IF IsNone(fadvices[g]) THEN Unchanged
    ELSE LET code == [fcode EXCEPT ![g] = unapply_code(g)[g]]
         IN [fadvices |-> [fadvices EXCEPT ![g] = NoneV],
             fcode |-> code,
             fintercepted |-> [fintercepted EXCEPT ![g] = unapply_intercepted(g)[g]],
             fjoinpoint |-> fjoinpoint,
             ex |-> Collect(ex, code)]

\* the unweave call of thread t runs from the filter to its end
UnweaveWrite(t) ==
    /\ ops[t].op = "unweave" /\ ops[t].stage = "read"
    /\ Becomes(_remove_advices_write(ops[t].j, Val(ops[t].copy)))
    /\ ops' = [ops EXCEPT ![t].stage = "done"]
    /\ UNCHANGED <<enable, stack, result, log, cur, wchain, wres, timers, snap, threads>>

WeaveLists == SeqsUpTo(AdvicePool, MaxWeave) \ {<<>>}
UnweaveArgs == {NoneV} \cup {Some(S) : S \in SUBSET (AdvicePool \cup OtherAdvices)}

Init ==
    /\ fadvices = [j \in Functions |-> NoneV]
    /\ fintercepted = [j \in Functions |-> FALSE]
    /\ fjoinpoint = [j \in Functions |-> FALSE]
    /\ fcode = [j \in Functions |-> "original"]
    /\ ex = [e \in ExecIds |-> FreeExecutor]
    /\ enable = [a \in AdviceObjs \cap AdvicePool |-> TRUE]
    /\ stack = <<>>
    /\ result = NoneV
    /\ log = <<>>
    /\ cur = NoCall
    /\ wchain = [j \in Functions |-> <<>>]
    /\ wres = Returned("", <<>>)
    /\ timers = <<>>
    /\ threads = [t \in Threads |-> NoThreadCall]
    /\ snap = NoSnapshot
    /\ ops = [t \in Threads |-> NoOp]

Next ==
    \/ \E j \in Funcs, A \in WeaveLists : Weave(j, A)
    \/ \E j \in Funcs, R \in UnweaveArgs : Unweave(j, R)
    \/ \E a \in AdviceObjs \cap AdvicePool, v \in BOOLEAN : SetEnable(a, v)
    \/ \E j \in Funcs, x \in Args : Call(j, x)
    \/ Proceed
    \/ Return

Spec == Init /\ [][Next]_vars

(***************************************************************************)
(* weave and unweave on containers, with pointcut, depth and public        *)
(***************************************************************************)
Pointcuts ==
    {PcNone, PcStr(Chars_init, TRUE), PcCallable({<<"m">>}), PcInt}

ContainerTargets == Classes \cup Instances

Depths == {0, 1, 2}

ContainerAdvices == {<<"a1">>}

ContainerUnweaveArgs == {NoneV, Some({"a3"})}

\* the target, pointcut, depth and public arguments of a call
AllCalls == [t : ContainerTargets, pc : Pointcuts, depth : Depths, public : BOOLEAN]

\* the calls made: a pointcut of a wrong type is given with one choice of the
\* other arguments; the methods of o are the functions of C, and o and the
\* nested class N are given with one choice of pointcut and public
ContainerCalls ==
    {c \in AllCalls :
        /\ c.pc = PcInt => (c.t = "C" /\ c.depth = 1 /\ ~c.public)
        /\ c.t \in {"o", "N"} => (c.pc = PcNone /\ ~c.public)}

\* a predicate that accepts constructors and fails on the method m
PcFailing == PcRaising({Chars_init}, <<"m">>)

\* an unweave that names an advice no list holds is made on each target
AbsentCalls == {c \in AllCalls : c.pc = PcNone /\ c.depth = 2 /\ ~c.public}

NextContainer ==
    \/ \E c \in ContainerCalls, A \in ContainerAdvices :
          WeaveApi(c.t, A, c.pc, c.depth, c.public, FALSE)
    \/ \E c \in ContainerCalls : UnweaveApi(c.t, NoneV, c.pc, c.depth, c.public)
    \/ \E c \in AbsentCalls : UnweaveApi(c.t, Some({"a3"}), c.pc, c.depth, c.public)

SpecContainer == Init /\ [][NextContainer]_vars

\* the same calls, for what is checked of unweave
SpecContainerUnweave == Init /\ [][NextContainer]_vars

(***************************************************************************)
(* weave with a ttl on a function, calls of the function, timers           *)
(***************************************************************************)
\* the advice collections given to weave: the empty one and one advice
TTLAdvices == {<<>>} \cup {<<a>> : a \in AdvicePool}

NextTTL ==
    \/ \E A \in TTLAdvices, ttl \in BOOLEAN : WeaveApi("f", A, PcNone, 1, FALSE, ttl)
    \/ UnweaveApi("f", NoneV, PcNone, 1, FALSE)
    \/ \E i \in DOMAIN timers : TimerFire(i)
    \/ \E i \in DOMAIN timers : TimerCancel(i)

SpecTTL == Init /\ [][NextTTL]_vars

\* the same, with calls of the function between the operations
NextTTLCalls ==
    \/ \E A \in TTLAdvices, ttl \in BOOLEAN : WeaveApi("f", A, PcNone, 1, FALSE, ttl)
    \/ UnweaveApi("f", NoneV, PcNone, 1, FALSE)
    \/ \E i \in DOMAIN timers : TimerFire(i)
    \/ \E i \in DOMAIN timers : TimerCancel(i)
    \/ \E x \in Args : Call("f", x)
    \/ Proceed
    \/ Return

SpecTTLCalls == Init /\ [][NextTTLCalls]_vars

(***************************************************************************)
(* Two threads call a function that was woven once                         *)
(***************************************************************************)
NextThreads ==
    \/ \E A \in WeaveLists :
          /\ ~is_intercepted("f")
          /\ ThreadsIdle
          /\ WeaveApi("f", A, PcNone, 1, FALSE, FALSE)
    \/ \E t \in Threads, x \in Args : ThreadCall(t, "f", x)
    \/ \E t \in Threads : ThreadProceed(t)
    \/ \E t \in Threads : ThreadReturn(t)

SpecThreads == Init /\ [][NextThreads]_vars

(***************************************************************************)
(* One method reached through its class, two instances and a subclass      *)
(***************************************************************************)
MethodRefs == {"C.m", "B.m", "o.m", "p.m"}
InstanceRefs == {"o.m", "p.m"}

\* a1 is woven through the instances, a2 through the class and its subclass
NextRefs ==
    \/ \E r \in InstanceRefs : WeaveApi(r, <<"a1">>, PcNone, 1, FALSE, FALSE)
    \/ \E r \in MethodRefs \ InstanceRefs : WeaveApi(r, <<"a2">>, PcNone, 1, FALSE, FALSE)
    \/ \E r \in MethodRefs, R \in {NoneV, Some({"a1"})} : UnweaveApi(r, R, PcNone, 1, FALSE)
    \/ \E x \in Args : Call("C.m", x)
    \/ Proceed
    \/ Return

SpecRefs == Init /\ [][NextRefs]_vars

(***************************************************************************)
(* weave_on as a decorator of a function and of a class                    *)
(***************************************************************************)
DecoratorTargets == {"f", "C"}
DecoratorPointcuts == {PcNone, PcStr(Chars_init, TRUE)}

NextDecorator ==
    \/ \E A \in TTLAdvices, pc \in DecoratorPointcuts, t \in DecoratorTargets :
          WeaveOnApi(A, pc, 1, t)
    \/ \E t \in DecoratorTargets : UnweaveApi(t, NoneV, PcNone, 1, FALSE)

SpecDecorator == Init /\ [][NextDecorator]_vars

(***************************************************************************)
(* Advice objects: a2 is woven, alone or after a1, and unweave names an    *)
(* Advice object that was never woven                                      *)
(***************************************************************************)
NextAdvice ==
    \/ \E A \in {<<"a2">>, <<"a1", "a2">>} : WeaveApi("f", A, PcNone, 1, FALSE, FALSE)
    \/ \E b \in {"a3", "a4"} : UnweaveApi("f", Some({b}), PcNone, 1, FALSE)
    \/ \E v \in BOOLEAN : SetEnable("a2", v)
    \/ \E v \in BOOLEAN, ids \in {NoneV, Some({2})} : AdviceSetEnable("f", v, ids)
    \/ \E As \in {<<>>, <<"a2">>} : AdviceUnweave("f", As)
    \/ \E x \in Args : Call("f", x)
    \/ Proceed
    \/ Return

SpecAdvice == Init /\ [][NextAdvice]_vars

\* weave calls on the class C and its instance o with a predicate that fails
\* on m, and with a valid pointcut; weave calls on the method o.m with
\* pointcuts that are false on it; unweave of everything
NextPartial ==
    \/ \E pc \in {PcIsFunction, PcStr(Chars_init, TRUE)}, depth \in {0, 1} :
           WeaveApi("o.m", <<"a1">>, pc, depth, FALSE, FALSE)
    \/ \E t \in {"C", "o"}, depth \in {1, 2} :
           WeaveApi(t, <<"a1">>, PcFailing, depth, FALSE, FALSE)
    \/ \E pc \in {PcNone, PcStr(Chars_init, TRUE)}, depth \in {1, 2} :
           WeaveApi("C", <<"a2">>, pc, depth, FALSE, FALSE)
    \/ \E R \in {NoneV, Some({"a1"})} : UnweaveApi("C", R, PcNone, 2, FALSE)

SpecPartial == Init /\ [][NextPartial]_vars

\* weave and unweave on f, get_advices of f, and attempts to append to what
\* get_advices returned
NextSnapshot ==
    \/ \E a \in {"a1", "a2"} : WeaveApi("f", <<a>>, PcNone, 1, FALSE, FALSE)
    \/ \E R \in {NoneV, Some({"a1"}), Some({"a2"})} : UnweaveApi("f", R, PcNone, 1, FALSE)
    \/ GetAdvices("f")
    \/ \E a \in {"a1", "a2"} : SnapshotAppend(a)

SpecSnapshot == Init /\ [][NextSnapshot]_vars

\* a thread calls the woven f while f is woven and unwoven, down to unbinding
NextInflight ==
    \/ \E A \in WeaveLists : WeaveApi("f", A, PcNone, 1, FALSE, FALSE)
    \/ \E R \in {NoneV, Some({"a1"})} : UnweaveApi("f", R, PcNone, 1, FALSE)
    \/ \E x \in Args : ThreadCall("t1", "f", x)
    \/ ThreadProceed("t1")
    \/ ThreadReturn("t1")

SpecInflight == Init /\ [][NextInflight]_vars

\* weave and unweave calls made one after the other, and a weave and an
\* unweave made by two threads at once
NextRace ==
    \/ \E A \in WeaveLists : OpsIdle /\ WeaveApi("f", A, PcNone, 1, FALSE, FALSE)
    \/ \E R \in UnweaveArgs : OpsIdle /\ UnweaveApi("f", R, PcNone, 1, FALSE)
    \/ \E A \in WeaveLists, R \in UnweaveArgs : StartRace("f", A, R)
    \/ \E t \in Threads : WeaveStep(t)
    \/ \E t \in Threads : UnweaveRead(t)
    \/ \E t \in Threads : UnweaveWrite(t)

SpecRace == Init /\ [][NextRace]_vars

\* calls of f woven with a1 and a2, whose handlers keep a key in the context
\* of the executor they are handed
NextContext ==
    \/ ~is_intercepted("f") /\ Weave("f", <<"a1", "a2">>)
    \/ Unweave("f", NoneV)
    \/ \E x \in Args : Call("f", x)
    \/ ProceedStash
    \/ Proceed
    \/ Return

SpecContext == Init /\ [][NextContext]_vars

\* calls of f, woven and unwoven; the body of f called with 5 may call f
NextRecursive ==
    \/ \E A \in {<<"a1">>, <<"a2">>, <<"a1", "a2">>} : Weave("f", A)
    \/ Unweave("f", NoneV)
    \/ \E x \in Args : Call("f", x)
    \/ Proceed
    \/ ProceedRecursive
    \/ Return

SpecRecursive == Init /\ [][NextRecursive]_vars

\* one weave call on the class C binds its members, one on the class D
\* reaches C.m under two names; the members are called
NextMembers ==
    \/ \E depth \in {1, 2} : WeaveApi("C", <<"a1">>, PcNone, depth, FALSE, FALSE)
    \/ WeaveApi("D", <<"a1">>, PcNone, 1, FALSE, FALSE)
    \/ UnweaveApi("C", NoneV, PcNone, 2, FALSE)
    \/ \E j \in {"C.__init__", "C.m"}, x \in Args : Call(j, x)
    \/ Proceed
    \/ Return

SpecMembers == Init /\ [][NextMembers]_vars

TypeOK ==
    /\ \A j \in Funcs : Len(attr_advices(j)) <= MaxAdvices
    /\ Len(stack) <= 1 + MaxAdvices * (MaxDeviations + 1)

(***************************************************************************)
(* What a caller observes of a call                                        *)
(***************************************************************************)
CallDone == Idle /\ ~IsNone(result) /\ cur.j # ""

IsBody(ev) == ev.beh \in {"body", "bodyraise"}

\* the advice objects the chain applied, in the order it applied them
AdvSeq(l) == [i \in 1..Len(SelectSeq(l, LAMBDA ev : ~IsBody(ev))) |->
                 SelectSeq(l, LAMBDA ev : ~IsBody(ev))[i].who]

BodyCount(l) == Len(SelectSeq(l, IsBody))

\* every advice applied in the call called execute once and returned its value
ProceedOnce(l) == \A i \in DOMAIN l : l[i].beh \in {"proceed", "disabled", "body", "bodyraise"}

\* the call ended in the original body, run once with the caller's argument,
\* and the caller got what the body returned or raised
EndsInBody(l) ==
    /\ l # <<>>
    /\ BodyCount(l) = 1
    /\ l[Len(l)].who = cur.j
    /\ l[Len(l)].arg = cur.x
    /\ IsBody(l[Len(l)])
    /\ result = Some(BodyOutcome(cur.x, IF l[Len(l)].beh = "body" THEN "return" ELSE "raise"))

(***************************************************************************)
(* C1: after one weave(J, A) on an unbound J, a call of J in which every   *)
(* advice proceeds exactly once invokes the elements of A once each, in    *)
(* list order, then the original body once, and returns the body's result. *)
(***************************************************************************)
C1_WovenCallRunsAdvicesInOrder ==
    (CallDone /\ Len(cur.wchain) = 1 /\ ProceedOnce(log)) =>
        /\ AdvSeq(log) = cur.wchain[1]
        /\ Len(log) = Len(cur.wchain[1]) + 1
        /\ EndsInBody(log)

C1_Witness ==
    /\ CallDone
    /\ Len(cur.wchain) = 1
    /\ Len(cur.wchain[1]) = 2
    /\ \A i \in 1..2 : log[i].beh = "proceed"
    /\ Len(log) = 3
    /\ result = Some(Ret(cur.x))

(***************************************************************************)
(* C2: unweave(J) without advices after weave(J, A) restores J: J is not   *)
(* bound, get_advices(J) is None, the code is the original code, and a     *)
(* call of J runs no advice and returns the body's result; while woven     *)
(* with a doubling advice f(5) returns 10, after the unweave f(5) is 5.    *)
(***************************************************************************)
C2_UnweaveRestores ==
    /\ [][\A j \in Funcs :
            (is_intercepted(j) /\ Unweave(j, NoneV)) =>
                /\ ~is_intercepted(j)'
                /\ get_advices(j)' = NoneV
                /\ fcode'[j] = "original"]_vars
    /\ [](\A j \in Funcs : (fjoinpoint[j] /\ ~is_intercepted(j)) => fcode[j] = "original")
    /\ []((CallDone /\ fjoinpoint[cur.j] /\ ~is_intercepted(cur.j)) =>
            /\ Len(log) = 1
            /\ EndsInBody(log))
    /\ []((CallDone /\ cur.wchain = << <<"a1">> >> /\ Len(log) = 2
              /\ log[1].beh = "double" /\ log[2].beh = "body") =>
            result = Some(Ret(2 * cur.x)))

C2_Witness ==
    /\ CallDone
    /\ fjoinpoint[cur.j]
    /\ ~is_intercepted(cur.j)
    /\ cur.x = 5
    /\ result = Some(Ret(5))

(***************************************************************************)
(* C3: weave(J, A1) followed by weave(J, A2) leaves J with the advice list *)
(* A1 \o A2; each weave appends its advices, in the given order, after the *)
(* ones already there, and the call that follows runs them in that order.  *)
(***************************************************************************)
C3_WeaveAppendsInOrder ==
    /\ [][\A j \in Funcs, A \in WeaveLists :
            (Idle /\ Weave(j, A)) =>
                get_advices(j)' =
                    Some((IF is_intercepted(j) THEN Val(get_advices(j)) ELSE <<>>) \o A)]_vars
    /\ []((CallDone /\ Len(cur.wchain) = 2 /\ ProceedOnce(log)) =>
            /\ cur.advs = Some(cur.wchain[1] \o cur.wchain[2])
            /\ AdvSeq(log) = cur.wchain[1] \o cur.wchain[2]
            /\ EndsInBody(log))

C3_Witness ==
    /\ CallDone
    /\ cur.wchain = << <<"a1">>, <<"a2">> >>
    /\ AdvSeq(log) = <<"a1", "a2">>
    /\ ProceedOnce(log)

(***************************************************************************)
(* C4: every call of a bound J starts its chain at the first advice of J's *)
(* list, whatever the previous call did (in particular after a call in     *)
(* which an advice returned without calling execute).                      *)
(***************************************************************************)
C4_CallStartsAtFirstAdvice ==
    (cur.bound /\ log # <<>>) =>
        /\ ~IsBody(log[1])
        /\ log[1].who = Val(cur.advs)[1]

(***************************************************************************)
(* C5: when an advice calls execute a second time after its first execute  *)
(* drained the chain and returned, that second execute calls the original  *)
(* body again with the current arguments and invokes no advice.            *)
(***************************************************************************)
C5_SecondProceedCallsBody ==
    [][(/\ ~Idle
        /\ Top.beh = "twice"
        /\ Top.n = 1
        /\ ~Failed(Top)
        /\ ex[Top.e].iter = 0) =>
            /\ Len(stack') = Len(stack)
            /\ Len(log') = Len(log) + 1
            /\ IsBody(log'[Len(log')])
            /\ log'[Len(log')].arg = ex[Top.e].kwargs]_vars

(***************************************************************************)
(* C6: an exception raised by an advice handler or by the original body    *)
(* during a call of a bound J reaches the caller of J unchanged.           *)
(***************************************************************************)
C6_ExceptionsReachCaller ==
    (CallDone /\ cur.bound) =>
        /\ (\E i \in DOMAIN log : log[i].beh = "raise") => result = Some(Exc("HandlerError"))
        /\ (\E i \in DOMAIN log : log[i].beh = "bodyraise") => result = Some(Exc("BodyError"))

C6_Witness ==
    /\ CallDone
    /\ cur.bound
    /\ Len(log) = 2
    /\ log[1].beh = "proceed"
    /\ log[2].beh = "raise"
    /\ result = Some(Exc("HandlerError"))

(***************************************************************************)
(* C7: a disabled Advice keeps its position in J's advice list, its        *)
(* handler is not run during a call, and the chain goes on to the next     *)
(* advice or to the body as if the handler had proceeded once and returned *)
(* that result.                                                            *)
(***************************************************************************)
C7_DisabledAdviceIsSkipped ==
    /\ [][\A a \in DOMAIN enable, v \in BOOLEAN :
            SetEnable(a, v) => \A j \in Funcs : get_advices(j)' = get_advices(j)]_vars
    /\ [](\A i \in DOMAIN log :
            ~IsBody(log[i]) =>
                (log[i].beh = "disabled" <=>
                    (log[i].who \in DOMAIN enable /\ ~enable[log[i].who])))
    /\ []((CallDone /\ cur.fresh /\ ProceedOnce(log)
              /\ \E i \in DOMAIN log : log[i].beh = "disabled") =>
            /\ AdvSeq(log) = Val(cur.advs)
            /\ EndsInBody(log))

C7_Witness ==
    /\ CallDone
    /\ cur.fresh
    /\ Len(log) = 3
    /\ log[1].beh = "disabled"
    /\ log[2].beh = "proceed"
    /\ result = Some(Ret(cur.x))

(***************************************************************************)
(* C8: each call of J runs exactly the advice sequence get_advices(J)      *)
(* holds when the call starts (stated for calls that find the cursor of    *)
(* the executor reset and whose advices all proceed once).                 *)
(***************************************************************************)
C8_CallRunsCurrentAdvices ==
    (CallDone /\ cur.pending /\ ProceedOnce(log)) => AdvSeq(log) = Val(cur.advs)

(***************************************************************************)
(* C9: unweave(J, R) with an explicit collection R on a bound J removes    *)
(* exactly the entries of J's list that are equal to a member of R, keeps  *)
(* the others in their relative order, and leaves J bound when an entry    *)
(* remains.                                                                *)
(***************************************************************************)
C9_UnweaveRemovesNamedAdvices ==
    [][Idle =>
        \A j \in Funcs, S \in SUBSET (AdvicePool \cup OtherAdvices) :
          (is_intercepted(j) /\ Unweave(j, Some(S))) =>
              LET old == Val(get_advices(j))
                  keep == SelectSeq(old, LAMBDA a : \A r \in S : ~AdviceEq(a, r))
              IN IF keep # <<>>
                 THEN is_intercepted(j)' /\ get_advices(j)' = Some(keep)
                 ELSE ~is_intercepted(j)']_vars

\* the executor still holds (a1, a2) from a call, and a1 has been unwoven
C9_Witness ==
    \E j \in Funcs :
        /\ Idle
        /\ get_advices(j) = Some(<<"a2">>)
        /\ fcode[j] # "original"
        /\ ex[fcode[j]].advices = <<"a1", "a2">>

(***************************************************************************)
(* C10: a joinpoint is bound if and only if its advice list is not empty;  *)
(* an unweave that empties the list unbinds the joinpoint and discards the *)
(* list.                                                                   *)
(***************************************************************************)
C10_BoundIffAdvices ==
    \A j \in Funcs :
        /\ is_intercepted(j) <=> (~IsNone(fadvices[j]) /\ Val(fadvices[j]) # <<>>)
        /\ is_intercepted(j) <=> fcode[j] # "original"
        /\ ~is_intercepted(j) => IsNone(fadvices[j])

C10_Witness ==
    \E j \in Funcs :
        /\ fjoinpoint[j]
        /\ ~is_intercepted(j)
        /\ IsNone(fadvices[j])

(***************************************************************************)
(* What the members of a container are expected to be: the level of        *)
(* containment of a function under a target, the names a pointcut selects  *)
(***************************************************************************)
Within(t, g, depth) ==
    CASE t \in {"C", "o"} /\ g \in {"C.__init__", "C.m"} -> depth >= 1
      [] t \in {"C", "o"} /\ g = "N.__init__" -> depth >= 2
      [] t = "N" /\ g = "N.__init__" -> depth >= 1
      [] OTHER -> FALSE

Selects(pc, g) ==
    CASE pc = PcNone -> TRUE
      [] pc = PcStr(Chars_init, TRUE) -> g \in {"C.__init__", "N.__init__"}
      [] pc = PcCallable({<<"m">>}) -> g = "C.m"
      [] OTHER -> FALSE

Private(g) == g \in {"C.__init__", "N.__init__"}

\* function g is after the call as it is before
Untouched(after, g) ==
    /\ after.fadvices[g] = fadvices[g]
    /\ after.fintercepted[g] = fintercepted[g]
    /\ after.fcode[g] = fcode[g]

\* function g is bound after the call and holds the list L
Holds(after, g, L) ==
    /\ after.fintercepted[g]
    /\ after.fcode[g] # "original"
    /\ after.fadvices[g] = Some(L)

ValidPointcuts == Pointcuts \ {PcInt}

(***************************************************************************)
(* C11: unweave never fails on absent state and is idempotent: a function  *)
(* that is not bound, or whose list holds none of the advices named, keeps *)
(* its advice list and its bound state, no error is raised, and what an    *)
(* unweave leaves behind is a state the same unweave does not change: a    *)
(* function it changed is unbound, or holds none of the advices named.     *)
(***************************************************************************)
C11_UnweaveIdempotent ==
    \A c \in AllCalls, R \in ContainerUnweaveArgs :
        c.pc \in ValidPointcuts =>
            LET u == unweave(c.t, R, c.pc, c.depth, c.public)
            IN /\ u.res.err = ""
               /\ \A g \in Functions :
                     /\ ~is_intercepted(g) => Untouched(u.after, g)
                     /\ (/\ is_intercepted(g)
                         /\ ~IsNone(R)
                         /\ \A a \in Range(attr_advices(g)) : ~InAdvices(a, Val(R)))
                           => Untouched(u.after, g)
                     /\ ~Untouched(u.after, g) =>
                           IF u.after.fintercepted[g]
                           THEN \A a \in Range(Val(u.after.fadvices[g])) :
                                   ~InAdvices(a, Val(R))
                           ELSE /\ IsNone(u.after.fadvices[g])
                                /\ u.after.fcode[g] = "original"

\* an unweave has returned and has left a bound function bound
C11_Witness ==
    /\ wres = Returned("unweave", <<>>)
    /\ is_intercepted("C.m")
    /\ ~is_intercepted("N.__init__")

(***************************************************************************)
(* C13: weave or unweave with a pointcut that is neither None, a str nor a *)
(* callable raises AdviceError, and no function is bound or changed.       *)
(***************************************************************************)
C13_BadPointcutRaisesAdviceError ==
    \A c \in AllCalls :
        c.pc = PcInt =>
            /\ \A A \in ContainerAdvices :
                  LET w == weave(c.t, A, c.pc, c.depth, c.public)
                  IN /\ w.res.err = "AdviceError"
                     /\ \A g \in Functions : Untouched(w.after, g)
            /\ \A R \in ContainerUnweaveArgs :
                  LET u == unweave(c.t, R, c.pc, c.depth, c.public)
                  IN /\ u.res.err = "AdviceError"
                     /\ \A g \in Functions : Untouched(u.after, g)

C15_DepthZeroOnContainerIsNoOp ==
    \A c \in AllCalls, A \in ContainerAdvices :
        (c.t \in Classes \cup Instances /\ c.depth = 0 /\ c.pc \in ValidPointcuts) =>
            weave(c.t, A, c.pc, c.depth, c.public) =
                [res |-> Returned("weave", <<>>), after |-> Unchanged]

\* a weave has returned an empty list, and nothing was ever bound
C15_Witness ==
    /\ wres = Returned("weave", <<>>)
    /\ \A g \in Functions : ~is_intercepted(g)
    /\ \A g \in Functions : ~fjoinpoint[g]

C12_EmptyAdvicesRaise ==
    /\ \A t \in Targets, pc \in Pointcuts, depth \in Depths, public \in BOOLEAN :
          /\ weave(t, <<>>, pc, depth, public) =
                [res |-> Raised("weave", "AdviceError"), after |-> Unchanged]
          /\ \A ttl \in BOOLEAN : IsNone(weave_timer(t, <<>>, pc, depth, public, ttl))
    /\ wres.err = "AdviceError" => wres.timer = 0
    /\ \A i \in DOMAIN timers : timers[i].advices # <<>>

\* weave(f, [], ttl=...) has raised while f holds the advice of an earlier
\* weave, whose timer is still the only one
C12_Witness ==
    /\ wres = Raised("weave", "AdviceError")
    /\ get_advices("f") = Some(<<"a1">>)
    /\ Len(timers) = 1
    /\ timers[1].state = "started"

(***************************************************************************)
(* C18: a timer that was cancelled before it fired never runs its unweave: *)
(* it stays cancelled, and the function loses advice or its binding only   *)
(* in a step that is an explicit unweave or the firing of a timer that was *)
(* not cancelled.                                                          *)
(***************************************************************************)
C18_CancelledTimerNeverFires ==
    [][/\ \A i \in DOMAIN timers :
             timers[i].state = "cancelled" => timers'[i] = timers[i]
       /\ (\/ Len(attr_advices("f")') < Len(attr_advices("f"))
            \/ (is_intercepted("f") /\ ~is_intercepted("f")'))
              => \/ UnweaveApi("f", NoneV, PcNone, 1, FALSE)
                 \/ \E i \in DOMAIN timers :
                       /\ timers[i].state = "started"
                       /\ timers'[i].state = "fired"]_vars

\* the first timer was cancelled, the second one has fired since, and f
\* still holds the advice of the first weave
C18_Witness ==
    /\ Len(timers) = 2
    /\ timers[1].state = "cancelled"
    /\ timers[2].state = "fired"
    /\ timers[1].advices = <<"a1">>
    /\ get_advices("f") = Some(<<"a1">>)

\* the number of entries of s that are equal to a
Count(a, s) == Len(SelectSeq(s, LAMBDA b : AdviceEq(a, b)))

(***************************************************************************)
(* C19: timers on the same function are independent: when timer i fires    *)
(* while timer k is started and the list of the function holds the advices *)
(* of both weave calls, the advices of k stay in the list and the function *)
(* stays bound.                                                            *)
(***************************************************************************)
C19_TimersAreIndependent ==
    [][\A i, k \in DOMAIN timers :
          (/\ i # k
           /\ timers[i].state = "started"
           /\ timers'[i].state = "fired"
           /\ timers[k].state = "started"
           /\ \A a \in AdvicePool :
                 Count(a, attr_advices("f")) >=
                     Count(a, timers[i].advices) + Count(a, timers[k].advices))
             => /\ is_intercepted("f")'
                /\ \A a \in Range(timers[k].advices) :
                      Count(a, attr_advices("f")') >= Count(a, timers[k].advices)]_vars

(***************************************************************************)
(* C17: once the timer of weave(J, A, ttl=t) has fired, calls of J no      *)
(* longer run the advice of A: a call that starts after the firing, at a   *)
(* time when the list of J holds no advice of A, applies no advice of A    *)
(* (stated for calls that find the cursor of the executor reset and whose  *)
(* advices all proceed once).                                              *)
(***************************************************************************)
C17_FiredTimerAdviceNotRun ==
    \A i \in DOMAIN timers :
        (/\ timers[i].state = "fired"
         /\ CallDone
         /\ cur.j = timers[i].joinpoint
         /\ cur.pending
         /\ ProceedOnce(log)
         /\ ~IsNone(cur.advs)
         /\ \A a \in Range(Val(cur.advs)) : ~InAdvices(a, Range(timers[i].advices)))
           => \A k \in DOMAIN log :
                 ~IsBody(log[k]) => ~InAdvices(log[k].who, Range(timers[i].advices))

\* the call of thread t has returned
ThreadDone(t) ==
    /\ threads[t].j # ""
    /\ threads[t].stack = <<>>
    /\ ~IsNone(threads[t].result)

(***************************************************************************)
(* C20: when two threads call the same woven function at the same time,    *)
(* each call applies every advice of the list once, in the order of the    *)
(* list, and runs the body once, at the end, with the argument of that     *)
(* call.                                                                   *)
(***************************************************************************)
C20_ConcurrentCallsRunWholeChain ==
    \A t \in Threads :
        ThreadDone(t) =>
            LET l == threads[t].log
            IN /\ AdvSeq(l) = attr_advices(threads[t].j)
               /\ BodyCount(l) = 1
               /\ IsBody(l[Len(l)])
               /\ l[Len(l)].arg = threads[t].x

(***************************************************************************)
(* C23: a method reached through its class and the same method reached     *)
(* through an instance are one joinpoint: both references have the same    *)
(* function, get_advices gives the same sequence for both, a weave through *)
(* either appends to the same list, and a weave through one reference on a *)
(* method bound through another binds nothing again.                       *)
(***************************************************************************)
C23_ReferencesShareOneJoinpoint ==
    \A r \in MethodRefs :
        /\ get_function(r) = get_function("C.m")
        /\ get_advices(r) = get_advices("C.m")
        /\ is_intercepted(r) = is_intercepted("C.m")
        /\ \A A \in TTLAdvices \ {<<>>} :
              LET w == weave(r, A, PcNone, 1, FALSE)
              IN /\ w = weave("C.m", A, PcNone, 1, FALSE)
                 /\ w.after.fadvices[get_function("C.m")] = Some(attr_advices("C.m") \o A)
                 /\ is_intercepted("C.m") =>
                       /\ w.after.fcode = fcode
                       /\ w.after.ex = ex

\* a1 was woven through an instance, then a2 through the class or the
\* subclass, and a call made through any reference has run both
C23_Witness ==
    /\ get_advices("C.m") = Some(<<"a1", "a2">>)
    /\ get_advices("o.m") = Some(<<"a1", "a2">>)
    /\ CallDone
    /\ cur.fresh
    /\ AdvSeq(log) = <<"a1", "a2">>

(***************************************************************************)
(* C24: binding a method through one instance changes only that instance:  *)
(* the function reached through the class and through another instance     *)
(* keeps its code and stays unbound, so calls through them run no advice.  *)
(***************************************************************************)
C24_InstanceBindingIsLocal ==
    \A A \in TTLAdvices \ {<<>>} :
        ~is_intercepted("o.m") =>
            LET w == weave("o.m", A, PcNone, 1, FALSE)
            IN \A r \in {"C.m", "p.m"} :
                  /\ ~w.after.fintercepted[get_function(r)]
                  /\ w.after.fcode[get_function(r)] = "original"

(***************************************************************************)
(* C25: binding through subclass B a method that B inherits from its base  *)
(* class makes B's method differ from the base class's, which stays        *)
(* unbound.                                                                *)
(***************************************************************************)
C25_SubclassBindingLeavesBase ==
    \A A \in TTLAdvices \ {<<>>} :
        ~is_intercepted("B.m") =>
            LET w == weave("B.m", A, PcNone, 1, FALSE)
            IN /\ w.after.fintercepted[get_function("B.m")]
               /\ get_function("B.m") # get_function("C.m")
               /\ ~w.after.fintercepted[get_function("C.m")]

(***************************************************************************)
(* C26: across sequential weave calls on a joinpoint, the interception is  *)
(* installed only by a weave that finds it unbound: a weave on a bound     *)
(* joinpoint appends advice and leaves the code, the `_intercepted`        *)
(* attribute and the executors as they are; a call then enters the chain   *)
(* once: it runs the body once.                                            *)
(***************************************************************************)
C26_WeaveBindsOnlyUnbound ==
    /\ [][\A j \in Funcs :
             (is_intercepted(j) /\ Len(attr_advices(j)') > Len(attr_advices(j)))
                => /\ fcode' = fcode
                   /\ fintercepted' = fintercepted
                   /\ ex' = ex]_vars
    /\ [](\A j \in Funcs : is_intercepted(j) => fcode[j] \in ExecIds)
    /\ []((CallDone /\ cur.fresh /\ ProceedOnce(log)) => BodyCount(log) = 1)

\* f was woven twice since it was bound, and a call has run the advices of
\* both weave calls and the body once
C26_Witness ==
    /\ CallDone
    /\ cur.fresh
    /\ Len(cur.wchain) = 2
    /\ AdvSeq(log) = cur.wchain[1] \o cur.wchain[2]
    /\ BodyCount(log) = 1

_enable(a) == IF a \in DOMAIN enable THEN enable[a] ELSE TRUE

\* the entries of the list of j that do not have the id of b
OtherIds(j, b) ==
    SelectSeq(attr_advices(j), LAMBDA a : ~(a \in AdviceObjs /\ uuid(a) = uuid(b)))

(***************************************************************************)
(* C30 (as the code has it): two Advice objects are equal if and only if   *)
(* their ids are equal, whatever the enabled flag, and objects with equal  *)
(* ids have equal hashes; unweave(J, [b]) leaves the entries of J's list   *)
(* that do not have the id of b, so it removes a when b has the id of a    *)
(* and removes nothing when no entry has the id of b.                      *)
(***************************************************************************)
C30_AdviceEqualityById ==
    /\ \A a \in AdviceObjs, b \in AdviceObjs :
          /\ _enable(a) \in BOOLEAN /\ _enable(b) \in BOOLEAN
          /\ __eq__(a, b) <=> uuid(a) = uuid(b)
          /\ uuid(a) = uuid(b) => __hash__(a) = __hash__(b)
    /\ \A b \in AdviceObjs :
          is_intercepted("f") =>
              LET u == unweave("f", Some({b}), PcNone, 1, FALSE)
              IN /\ u.after.fadvices["f"] =
                       IF OtherIds("f", b) = <<>> THEN NoneV ELSE Some(OtherIds("f", b))
                 /\ u.after.fintercepted["f"] = (OtherIds("f", b) # <<>>)

\* a2 was woven after a1 and disabled, and unweave(f, [a3]) has removed it
C30_Witness ==
    /\ wres = Returned("unweave", <<>>)
    /\ get_advices("f") = Some(<<"a1">>)
    /\ ~enable["a2"]

(***************************************************************************)
(* C30 (as stated): two Advice objects are equal, and have equal hashes,   *)
(* if and only if their ids are equal.                                     *)
(***************************************************************************)
C30_EqualHashIffEqualId ==
    \A a \in AdviceObjs, b \in AdviceObjs :
        /\ _enable(a) \in BOOLEAN /\ _enable(b) \in BOOLEAN
        /\ __eq__(a, b) <=> uuid(a) = uuid(b)
        /\ __hash__(a) = __hash__(b) <=> uuid(a) = uuid(b)

(***************************************************************************)
(* C27: when the pointcut fails at a member part-way through the traversal *)
(* of weave, the error reaches the caller of weave, no timer is made, and  *)
(* the members matched before keep the advice the call appended: with a    *)
(* predicate that accepts constructors and fails on m, the constructors    *)
(* within depth are woven and m is untouched; the traversal agrees with    *)
(* the one of a predicate that does not fail up to the failing member.     *)
(***************************************************************************)
C27_FailedWeaveKeepsEarlierMembers ==
    \A t \in {"C", "o"}, depth \in {1, 2}, A \in {<<"a1">>, <<"a1", "a2">>} :
        LET w == weave(t, A, PcFailing, depth, FALSE)
            p == weave(t, A, PcFailing, depth, TRUE)
        IN /\ w.res = Raised("weave", "PredicateError")
           /\ IsNone(weave_timer(t, A, PcFailing, depth, FALSE, TRUE))
           /\ Holds(w.after, "C.__init__", attr_advices("C.__init__") \o A)
           /\ Untouched(w.after, "C.m")
           /\ IF depth = 2
              THEN Holds(w.after, "N.__init__", attr_advices("N.__init__") \o A)
              ELSE Untouched(w.after, "N.__init__")
           /\ p.res = Raised("weave", "PredicateError")
           /\ \A g \in Functions : Untouched(p.after, g)
           /\ \A pc \in ValidPointcuts :
                 _weave_walk(<<t>>, pointcut_init(pc), depth, FALSE) =
                     [hit |-> _weave_visit(<<t>>, pointcut_init(pc), depth, FALSE),
                      err |-> ""]

\* weave(C, a1, predicate, depth=1) has raised and C.__init__ holds a1
C27_Witness ==
    /\ wres = Raised("weave", "PredicateError")
    /\ get_advices("C.__init__") = Some(<<"a1">>)
    /\ ~is_intercepted("C.m")
    /\ ~is_intercepted("N.__init__")

(***************************************************************************)
(* C28: get_advices(J) is None when J is not bound and otherwise a tuple   *)
(* of J's list in the order of the list; what a caller got from            *)
(* get_advices keeps the entries it had when it was returned whatever      *)
(* weave and unweave do afterwards, and an append through it raises and    *)
(* leaves the registry as it is.                                           *)
(***************************************************************************)
C28_GetAdvicesIsSnapshot ==
    /\ \A j \in {"f"} :
          LET o == get_advices_object(j)
          IN IF is_intercepted(j)
             THEN /\ ~IsNone(o) /\ Val(o).obj = "tuple"
                  /\ items(Val(o)) = Val(fadvices[get_function(j)])
             ELSE IsNone(o)
    /\ snap.of # "" =>
          /\ IsNone(snap.val) <=> IsNone(snap.at)
          /\ ~IsNone(snap.val) =>
                /\ items(Val(snap.val)) = Val(snap.at)
                /\ \A a \in {"a1", "a2"} :
                      LET w == object_append(Val(snap.val), a)
                      IN w.res.err # "" /\ w.after = Unchanged

\* a caller holds (a1) from get_advices(f), the list of f is now (a1, a2), and
\* the append the caller tried has raised
C28_Witness ==
    /\ snap.of = "f" /\ ~IsNone(snap.val)
    /\ items(Val(snap.val)) = <<"a1">>
    /\ get_advices("f") = Some(<<"a1", "a2">>)
    /\ wres = Raised("append", "AttributeError")

(***************************************************************************)
(* C22: a call of f that a thread has in flight while f is unwoven, down   *)
(* to unbinding it, goes on with the executor and the body it started      *)
(* with, and completes: it runs the body once, last, with its argument,    *)
(* and returns what the body returns.                                      *)
(***************************************************************************)
C22_InflightCallSurvivesUnweave ==
    \A t \in Threads :
        /\ \A i \in DOMAIN threads[t].stack :
              /\ ex[threads[t].stack[i].e].callee = threads[t].j
              /\ ex[threads[t].stack[i].e].intercepted = threads[t].j
        /\ ThreadDone(t) =>
              LET l == threads[t].log
              IN /\ BodyCount(l) = 1
                 /\ l[Len(l)] = BodyEvent(threads[t].j, threads[t].x, "return")
                 /\ threads[t].result = Some(Ret(threads[t].x))

\* the call of t1 has returned and ran the body only: f was unbound after the
\* call had started and before its executor loaded the advices
C22_Witness ==
    /\ ThreadDone("t1")
    /\ threads["t1"].log = <<BodyEvent("f", 5, "return")>>
    /\ threads["t1"].result = Some(Ret(5))
    /\ ~is_intercepted("f")

\* the list l without the advices named by R; R = None names them all
Without(l, R) ==
    IF IsNone(R) THEN <<>> ELSE SelectSeq(l, LAMBDA a : ~InAdvices(a, Val(R)))

\* the weave of t1 and the unweave of t2 have both returned
RaceDone == ops["t1"].stage = "done" /\ ops["t2"].stage = "done"

(***************************************************************************)
(* C21: when weave(f, A) and unweave(f, R) run at the same time in two     *)
(* threads, f ends with the list and the bound state of one of the two     *)
(* orders, weave then unweave or unweave then weave, and is bound iff its  *)
(* list is not empty.                                                      *)
(***************************************************************************)
C21_ConcurrentCallsAreSerializable ==
    RaceDone =>
        LET A == ops["t1"].A
            R == ops["t2"].R
            base == ops["t1"].base
        IN /\ attr_advices("f") \in {Without(base \o A, R), Without(base, R) \o A}
           /\ is_intercepted("f") <=> attr_advices("f") # <<>>
           /\ is_intercepted("f") <=> ~IsNone(fadvices["f"])

(***************************************************************************)
(* C31: Advice.set_enable(f, v, ids) on a woven f raises nothing and sets  *)
(* the flag of every Advice object of f's list whose id is in ids, or of   *)
(* all of them when ids is None, to v; the flag of every other Advice      *)
(* object stays as it is.                                                  *)
(***************************************************************************)
C31_SetEnableSetsFlags ==
    \A v \in BOOLEAN, ids \in {NoneV, Some({2})} :
        is_intercepted("f") =>
            LET r == set_enable("f", v, ids)
            IN /\ r.err = ""
               /\ \A a \in DOMAIN enable :
                     r.enable[a] =
                         IF /\ a \in Range(attr_advices("f"))
                            /\ (IsNone(ids) \/ uuid(a) \in Val(ids))
                         THEN v ELSE enable[a]

(***************************************************************************)
(* C32: when the list of f is the one Advice object a2, as after           *)
(* Advice.weave(f, [a2]), Advice.unweave(f, a2) raises nothing and leaves  *)
(* f unbound with no advice list.                                          *)
(***************************************************************************)
C32_AdviceUnweaveRemoves ==
    get_advices("f") = Some(<<"a2">>) =>
        LET w == Advice_unweave("f", <<"a2">>)
        IN /\ w.res.err = ""
           /\ ~w.after.fintercepted["f"]
           /\ IsNone(w.after.fadvices["f"])
           /\ w.after.fcode["f"] = "original"

\* the events of handlers that looked for the key in the context
IsStash(ev) == ev.beh \in {"found", "stored"}

(***************************************************************************)
(* C33: a key a handler stores in the context during a call of f is found  *)
(* by the handlers that run later in that call, and by no handler of a     *)
(* later call: a handler finds the key iff a handler stored it earlier in  *)
(* the same call.                                                          *)
(***************************************************************************)
C33_ContextIsPerCall ==
    \A i \in DOMAIN log :
        IsStash(log[i]) =>
            (log[i].beh = "found" <=> \E k \in 1..(i - 1) : IsStash(log[k]))

(***************************************************************************)
(* C34: a call of a member function bound by a weave call on its class,    *)
(* whose handlers all proceed once, runs the advice list of that member    *)
(* and ends in the body of that member with the argument of the call.      *)
(***************************************************************************)
C34_MemberCallRunsOwnBody ==
    (CallDone /\ cur.bound /\ cur.pending /\ ProceedOnce(log)) =>
        /\ BodyCount(log) = 1
        /\ IsBody(log[Len(log)])
        /\ log[Len(log)].who = cur.j
        /\ log[Len(log)].arg = cur.x

(***************************************************************************)
(* C35: when a handler has raised during a call of a woven function, the   *)
(* call leaves the cursor of the executor where a new call expects it, at  *)
(* the start of the chain, so that the next call begins with the first     *)
(* advice.                                                                 *)
(***************************************************************************)
C35_RaisingHandlerResetsCursor ==
    (CallDone /\ cur.bound /\ \E i \in DOMAIN log : log[i].beh = "raise") =>
        ex[fcode[cur.j]].iter = 0

(***************************************************************************)
(* C36: weave on a function or a method that the pointcut is false on      *)
(* returns an empty list and changes nothing, whatever the depth.          *)
(***************************************************************************)
C36_RejectedInvocableIsNoOp ==
    \A t \in {"f", "o.m"}, pc \in {PcIsFunction, PcStr(Chars_init, TRUE)}, depth \in 0..2 :
        ~pointcut_applies(pointcut_init(pc), t) =>
            LET w == weave(t, <<"a1">>, pc, depth, FALSE)
            IN /\ w.res = Returned("weave", <<>>)
               /\ \A g \in Functions : Untouched(w.after, g)

(***************************************************************************)
(* C37: a weave call on the class D, which holds the function C.m under    *)
(* two names, appends the advices to the list of C.m once and returns C.m  *)
(* once.                                                                   *)
(***************************************************************************)
C37_AliasedMemberWovenOnce ==
    \A A \in {<<"a1">>, <<"a1", "a2">>} :
        LET w == weave("D", A, PcNone, 1, FALSE)
        IN /\ w.res = Returned("weave", <<"C.m">>)
           /\ Holds(w.after, "C.m", attr_advices("C.m") \o A)

(***************************************************************************)
(* C39: a function that holds no advice list and no intercepted link, as   *)
(* after a weave followed by a full unweave, holds no `_joinpoint`         *)
(* attribute either.                                                       *)
(***************************************************************************)
C39_FullUnweaveLeavesNothing ==
    \A j \in Funcs :
        (IsNone(fadvices[j]) /\ ~is_intercepted(j)) => ~fjoinpoint[j]

\* the events of l from position a to position b
Events(l, a, b) == [i \in 1..(b - a + 1) |-> l[a + i - 1]]

(***************************************************************************)
(* C38: when the body of a woven joinpoint calls the joinpoint again, and  *)
(* every handler calls execute once, the inner call applies the same       *)
(* advices as the outer call, from the first one, and then runs its own    *)
(* body; no advice is applied after that, and the outer call returns what  *)
(* the outer body makes of the inner result.  On an executor that held no  *)
(* advices the chain is the list of the joinpoint.                         *)
(***************************************************************************)
C38_RecursiveBodyRunsFullChain ==
    (/\ CallDone /\ cur.bound /\ cur.pending
     /\ \E k \in DOMAIN log : log[k].beh = "recurse"
     /\ \A i \in DOMAIN log :
           log[i].beh \in {"proceed", "disabled", "recurse", "body", "bodyraise"})
    => LET k == CHOOSE i \in DOMAIN log : log[i].beh = "recurse"
           outer == Events(log, 1, k - 1)
       IN /\ Len(log) = 2 * k
          /\ \A i \in 1..(k - 1) : ~IsBody(log[i])
          /\ Events(log, k + 1, 2 * k - 1) = outer
          /\ IsBody(log[2 * k]) /\ log[2 * k].who = cur.j /\ log[2 * k].arg = 1
          /\ log[k].who = cur.j /\ cur.x = 5
          /\ result = Some(IF log[2 * k].beh = "bodyraise" THEN Exc("BodyError")
                           ELSE Ret(6))
          /\ cur.fresh =>
                /\ ~IsNone(cur.advs)
                /\ [i \in 1..(k - 1) |-> outer[i].who] = Val(cur.advs)

C38_Witness ==
    /\ CallDone /\ cur.bound /\ cur.pending /\ cur.fresh
    /\ Len(log) = 6
    /\ log[3].beh = "recurse"
    /\ \A i \in {1, 2, 4, 5} : log[i].beh = "proceed"
    /\ log[6].beh = "body"
    /\ result = Some(Ret(6))

====
